---------------------------- MODULE Spec2Model ----------------------------
(***************************************************************************)
(* AsyncSpotify: the API class of src/async_spotify/api/api.py             *)
(* (session handling, authorization URL, automated code retrieval, token   *)
(* exchange, status classification).                                       *)
(*                                                                         *)
(* Text is a sequence of chunks.  A chunk is one character, or a word made *)
(* only of characters urllib leaves unquoted (letters, digits, "_.-~").    *)
(* An optional value is <<>> (Python None) or <<v>>.                       *)
(***************************************************************************)
EXTENDS Integers, Sequences, FiniteSets, TLC

VARIABLES
    api,                          \* the API object: what __init__ was given and how it ended
    preferences,                  \* self.preferences
    hold_authentication,          \* self.hold_authentication
    session,                      \* self.session: 0 is None, else a session id
    closed,                       \* closed[i]: has ClientSession i been closed
    spotify_authorisation_token,  \* self.spotify_authorisation_token (optional)
    clock,                        \* int(time.time()) of the local clock
    last_returned,                \* history: the token the last successful exchange returned
    heap,                         \* the SpotifyAuthorisationToken objects, by object id
    held_ref,                     \* the object self.spotify_authorisation_token refers to (0: None)
    max_activation,               \* history: the largest activation_time constructed (-1: none)
    callers,                      \* the tasks that call into the API object
    pc,                           \* pc[t]: where task t stands in its coroutine
    frame,                        \* frame[t]: the locals of task t's call
    url_call,                     \* the last build_authorization_url call
    processes,                    \* the callback server processes spawned
    gc                            \* the frame of get_code_with_cookie

vars == <<api, preferences, hold_authentication, session, closed,
          spotify_authorisation_token, clock, last_returned, heap, held_ref,
          max_activation, callers, pc, frame, url_call, processes, gc>>

tokVars == <<heap, held_ref, max_activation>>

apiVars == <<hold_authentication, session, closed,
             spotify_authorisation_token, clock, last_returned, tokVars,
             callers, pc, frame>>

authVars == <<url_call, processes, gc>>

-----------------------------------------------------------------------------
(* Bounds *)

MaxSessions == 3
MaxClock == 1
NumTasks == 2
MaxProcesses == 2

Tasks == 1..NumTasks

-----------------------------------------------------------------------------
(* Optional values *)

None == <<>>

Some(v) == <<v>>

\* Python truthiness of an optional text: None and "" are falsy.
Truthy(opt) == opt # None /\ opt[1] # <<>>

-----------------------------------------------------------------------------
(* urllib.parse.urlencode, as build_authorization_url uses it *)

Unsafe == {" ", "&", "=", "+", "%", ":", "/", "?"}

Hex(c) ==
    CASE c = "&" -> <<"2", "6">>
      [] c = "=" -> <<"3", "D">>
      [] c = "+" -> <<"2", "B">>
      [] c = "%" -> <<"2", "5">>
      [] c = ":" -> <<"3", "A">>
      [] c = "/" -> <<"2", "F">>
      [] c = "?" -> <<"3", "F">>

QuoteChunk(c) ==
    IF c = " " THEN <<"+">>
    ELSE IF c \in Unsafe THEN <<"%">> \o Hex(c)
    ELSE <<c>>

RECURSIVE quote_plus(_)
quote_plus(s) ==
    IF s = <<>> THEN <<>> ELSE QuoteChunk(Head(s)) \o quote_plus(Tail(s))

RECURSIVE urlencode(_)
urlencode(params) ==
    IF params = <<>> THEN <<>>
    ELSE quote_plus(params[1][1]) \o <<"=">> \o quote_plus(params[1][2])
         \o (IF Len(params) > 1 THEN <<"&">> \o urlencode(Tail(params)) ELSE <<>>)

RECURSIVE Join(_, _)
Join(sep, parts) ==
    IF parts = <<>> THEN <<>>
    ELSE IF Len(parts) = 1 THEN parts[1]
    ELSE parts[1] \o sep \o Join(sep, Tail(parts))

\* f"{show_dialog}"
BoolText(b) == IF b THEN <<"True">> ELSE <<"False">>

URLS_AUTHORIZE == <<"https", ":", "/", "/", "accounts.spotify.com", "/", "authorize">>

AuthorizationParams_CommaScopes(prefs, show_dialog, state) ==
    << <<<<"client_id">>, prefs.application_id>>,
       <<<<"response_type">>, <<"code">>>>,
       <<<<"scope">>, Join(<<",">>, prefs.scopes)>>,
       <<<<"show_dialog">>, BoolText(show_dialog)>>,
       <<<<"redirect_uri">>, prefs.redirect_url>> >>
    \o (IF Truthy(state) THEN << <<<<"state">>, state[1]>> >> ELSE <<>>)

\* The params dict of build_authorization_url, in insertion order.
AuthorizationParams(prefs, show_dialog, state) ==
    << <<<<"client_id">>, prefs.application_id>>,
       <<<<"response_type">>, <<"code">>>>,
       <<<<"scope">>, Join(<<" ">>, prefs.scopes)>>,
       <<<<"show_dialog">>, BoolText(show_dialog)>>,
       <<<<"redirect_uri">>, prefs.redirect_url>> >>
    \o (IF Truthy(state) THEN << <<<<"state">>, state[1]>> >> ELSE <<>>)

build_authorization_url(prefs, show_dialog, state) ==
    URLS_AUTHORIZE \o <<"?">> \o urlencode(AuthorizationParams(prefs, show_dialog, state))


-----------------------------------------------------------------------------
(* get_code_with_cookie and _curl_spotify_code *)

\* What subprocess.run hands back: sample byte strings of curl's two pipes.
StdoutSamples ==
    { "\\xff\\xfe",                      \* bytes that are no UTF-8 text
      "<html>Login</html>",              \* text, no JSON
      "{\"error\": \"access_denied\"}",  \* a JSON object without "code"
      "[]",                              \* JSON, no object
      "{\"code\": \"c1\"}",
      "{\"code\": \"c2\"}" }

StderrSamples == { "curl: (6) Could not resolve host", "\\xff" }

Responses ==
    [returncode : {0, 6}, stdout : StdoutSamples, stderr : StderrSamples]

\* bytes.decode(): fails on bytes that are no UTF-8 text.
Decodes(bytes) == bytes \notin {"\\xff\\xfe", "\\xff"}

\* json.loads on the sample texts: ok, and the value as its kind and members.
json_loads(text) ==
    CASE text = "{\"error\": \"access_denied\"}" ->
            [ok |-> TRUE, kind |-> "dict", items |-> {<<"error", "access_denied">>}]
      [] text = "[]" -> [ok |-> TRUE, kind |-> "list", items |-> {}]
      [] text = "{\"code\": \"c1\"}" ->
            [ok |-> TRUE, kind |-> "dict", items |-> {<<"code", "c1">>}]
      [] text = "{\"code\": \"c2\"}" ->
            [ok |-> TRUE, kind |-> "dict", items |-> {<<"code", "c2">>}]
      [] text = "{\"access_token\": \"A1\"}" ->
            [ok |-> TRUE, kind |-> "dict", items |-> {<<"access_token", "A1">>}]
      [] text = "{\"access_token\": \"A2\", \"refresh_token\": \"R2\"}" ->
            [ok |-> TRUE, kind |-> "dict",
             items |-> {<<"access_token", "A2">>, <<"refresh_token", "R2">>}]
      [] text = "{\"error\": \"invalid_grant\"}" ->
            [ok |-> TRUE, kind |-> "dict", items |-> {<<"error", "invalid_grant">>}]
      [] OTHER -> [ok |-> FALSE, kind |-> "", items |-> {}]

HasKey(value, key) == value.kind = "dict" /\ \E p \in value.items : p[1] = key

Get(value, key) == (CHOOSE p \in value.items : p[1] = key)[2]

Return(v) == [kind |-> "return", exc |-> "", value |-> Some(v), message |-> <<>>]

RaiseMsg(e, m) == [kind |-> "raise", exc |-> e, value |-> None, message |-> m]

Raise(e) == RaiseMsg(e, <<>>)

\* The outcome of _curl_spotify_code and whether it killed webserver_process.
\* "except JSONDecodeError or KeyError" is "except JSONDecodeError": a missing
\* key or a value that is no object leaves through the uncaught exception.
\* stderr.decode() inside a handler can itself raise once the process is killed.
_curl_spotify_code(response) ==
    IF response.returncode # 0
    THEN [result |-> Raise("SpotifyError"), killed |-> FALSE]
    ELSE IF ~Decodes(response.stdout)
    THEN [result |-> IF Decodes(response.stderr) THEN Raise("SpotifyError")
                     ELSE Raise("UnicodeDecodeError"),
          killed |-> TRUE]
    ELSE LET parsed == json_loads(response.stdout) IN
         IF ~parsed.ok
         THEN [result |-> IF Decodes(response.stderr) THEN Raise("SpotifyError")
                          ELSE Raise("UnicodeDecodeError"),
               killed |-> TRUE]
         ELSE IF parsed.kind # "dict"
         THEN [result |-> Raise("TypeError"), killed |-> FALSE]
         ELSE IF ~HasKey(parsed, "code")
         THEN [result |-> Raise("KeyError"), killed |-> FALSE]
         ELSE [result |-> Return(Get(parsed, "code")), killed |-> FALSE]

\* create_callback_server: a new running listener process, and its handle.
create_callback_server(procs) == Append(procs, "alive")

kill(procs, p) == [procs EXCEPT ![p] = "killed"]

GcIdle ==
    [pc |-> "idle", url |-> <<>>, webserver_process |-> 0,
     response |-> None, result |-> None, events |-> <<>>]

\* Lines 152-159: build the URL, spawn the listener, suspend in asyncio.sleep(3).
GetCodeStart ==
    /\ gc.pc \in {"idle", "done"}
    /\ Len(processes) < MaxProcesses
    /\ processes' = create_callback_server(processes)
    /\ gc' = [pc |-> "sleep",
              url |-> build_authorization_url(preferences, FALSE, None),
              webserver_process |-> Len(processes) + 1,
              response |-> None, result |-> None, events |-> <<"spawn">>]
    /\ UNCHANGED <<api, preferences, url_call>>
    /\ UNCHANGED apiVars

\* Lines 161-165: the sleep is over; curl runs; the listener is killed only
\* when _curl_spotify_code returned.
GetCodeResume(response) ==
    /\ gc.pc = "sleep"
    /\ LET r == _curl_spotify_code(response)
           p == gc.webserver_process
           returned == r.result.kind = "return"
       IN /\ processes' = IF r.killed \/ returned THEN kill(processes, p) ELSE processes
          /\ gc' = [gc EXCEPT !.pc = "done",
                              !.response = Some(response),
                              !.result = Some(r.result),
                              !.events = @ \o <<"wait", "curl">>
                                           \o (IF r.killed THEN <<"kill">> ELSE <<>>)
                                           \o (IF returned THEN <<"kill">> ELSE <<>>)]
    /\ UNCHANGED <<api, preferences, url_call>>
    /\ UNCHANGED apiVars

\* A caller builds the authorization URL.
BuildAuthorizationUrl(show_dialog, state) ==
    /\ url_call' = Some([show_dialog |-> show_dialog, state |-> state,
                         url |-> build_authorization_url(preferences, show_dialog, state)])
    /\ UNCHANGED <<api, preferences, processes, gc>>
    /\ UNCHANGED apiVars

-----------------------------------------------------------------------------
(* STATUS_CODES and request_ok *)

\* status_codes.STATUS_CODES: four disjoint bands, each code with its reason.
STATUS_CODES ==
    [OK |-> (200 :> "OK" @@ 201 :> "Created" @@ 202 :> "Accepted" @@ 204 :> "No Content"),
     REDIRECT |-> (304 :> "Not Modified"),
     CLIENT_ERROR |-> (400 :> "Bad Request" @@ 401 :> "Unauthorized" @@ 403 :> "Forbidden"
                       @@ 404 :> "Not Found" @@ 429 :> "Too Many Requests"),
     SERVER_ERROR |-> (500 :> "Internal Server Error" @@ 502 :> "Bad Gateway"
                       @@ 503 :> "Service Unavailable")]

request_ok_RedirectIsOk(status_code) ==
    IF status_code \in DOMAIN STATUS_CODES.OK
    THEN <<TRUE, STATUS_CODES.OK[status_code]>>
    ELSE IF status_code \in DOMAIN STATUS_CODES.REDIRECT
    THEN <<TRUE, STATUS_CODES.REDIRECT[status_code]>>
    ELSE IF status_code \in DOMAIN STATUS_CODES.CLIENT_ERROR
    THEN <<FALSE, STATUS_CODES.CLIENT_ERROR[status_code]>>
    ELSE IF status_code \in DOMAIN STATUS_CODES.SERVER_ERROR
    THEN <<FALSE, STATUS_CODES.SERVER_ERROR[status_code]>>
    ELSE <<FALSE, "Unknown response code">>

request_ok(status_code) ==
    IF status_code \in DOMAIN STATUS_CODES.OK
    THEN <<TRUE, STATUS_CODES.OK[status_code]>>
    ELSE IF status_code \in DOMAIN STATUS_CODES.REDIRECT
    THEN <<FALSE, STATUS_CODES.REDIRECT[status_code]>>
    ELSE IF status_code \in DOMAIN STATUS_CODES.CLIENT_ERROR
    THEN <<FALSE, STATUS_CODES.CLIENT_ERROR[status_code]>>
    ELSE IF status_code \in DOMAIN STATUS_CODES.SERVER_ERROR
    THEN <<FALSE, STATUS_CODES.SERVER_ERROR[status_code]>>
    ELSE <<FALSE, "Unknown response code">>

-----------------------------------------------------------------------------
(* base64.b64encode of an ASCII text *)

\* str.encode("ascii") of the characters the credentials are made of.
Ord(c) ==
    CASE c = "a" -> 97 [] c = "b" -> 98 [] c = "c" -> 99
      [] c = "s" -> 115 [] c = "t" -> 116 [] c = ":" -> 58

Encode(text) == [i \in DOMAIN text |-> Ord(text[i])]

B64Alphabet ==
    << "A", "B", "C", "D", "E", "F", "G", "H", "I", "J", "K", "L", "M", "N", "O", "P",
       "Q", "R", "S", "T", "U", "V", "W", "X", "Y", "Z", "a", "b", "c", "d", "e", "f",
       "g", "h", "i", "j", "k", "l", "m", "n", "o", "p", "q", "r", "s", "t", "u", "v",
       "w", "x", "y", "z", "0", "1", "2", "3", "4", "5", "6", "7", "8", "9", "+", "/" >>

B64Char(sextet) == B64Alphabet[sextet + 1]

RECURSIVE b64encode(_)
b64encode(bytes) ==
    IF bytes = <<>> THEN <<>>
    ELSE IF Len(bytes) = 1
    THEN <<B64Char(bytes[1] \div 4), B64Char((bytes[1] % 4) * 16), "=", "=">>
    ELSE IF Len(bytes) = 2
    THEN <<B64Char(bytes[1] \div 4),
           B64Char((bytes[1] % 4) * 16 + bytes[2] \div 16),
           B64Char((bytes[2] % 16) * 4), "=">>
    ELSE <<B64Char(bytes[1] \div 4),
           B64Char((bytes[1] % 4) * 16 + bytes[2] \div 16),
           B64Char((bytes[2] % 16) * 4 + bytes[3] \div 64),
           B64Char(bytes[3] % 64)>>
         \o b64encode(SubSeq(bytes, 4, Len(bytes)))

-----------------------------------------------------------------------------
(* The token exchange: refresh_token *)

\* Sample bodies of the token endpoint's answer.
BodySamples ==
    { "<html>Bad Gateway</html>",
      "{\"access_token\": \"A1\"}",
      "{\"access_token\": \"A2\", \"refresh_token\": \"R2\"}",
      "{\"error\": \"invalid_grant\"}" }

StatusSamples == {200, 304, 400, 499}

\* str() of a parsed sample body: Python's repr of the dict, not the raw text.
str(value) ==
    CASE value.items = {<<"access_token", "A1">>} -> "{'access_token': 'A1'}"
      [] value.items = {<<"access_token", "A2">>, <<"refresh_token", "R2">>} ->
            "{'access_token': 'A2', 'refresh_token': 'R2'}"
      [] value.items = {<<"error", "invalid_grant">>} -> "{'error': 'invalid_grant'}"
      [] OTHER -> "[]"

\* A token a caller obtained earlier.
Token0 == [refresh_token |-> "R1", access_token |-> "A0", activation_time |-> 0]

SpotifyAuthorisationToken(refresh_token, activation_time, access_token) ==
    [refresh_token |-> refresh_token, access_token |-> access_token,
     activation_time |-> activation_time]

RequestBody_GrantNotSwitched(prefs, passed, reauthorize, code) ==
    IF reauthorize
    THEN [grant_type |-> "refresh_token", refresh_token |-> passed[1].refresh_token]
    ELSE [grant_type |-> "refresh_token", code |-> code,
          redirect_uri |-> prefs.redirect_url]

\* Lines 223-235; in refresh mode the caller passed a token.
RequestBody(prefs, passed, reauthorize, code) ==
    IF reauthorize
    THEN [grant_type |-> "refresh_token", refresh_token |-> passed[1].refresh_token]
    ELSE [grant_type |-> "authorization_code", code |-> code,
          redirect_uri |-> prefs.redirect_url]

\* Lines 237-239.
RequestHeader(prefs) ==
    [Authorization |->
        <<"Basic", " ">>
        \o b64encode(Encode(prefs.application_id \o <<":">> \o prefs.application_secret))]

NewRefreshToken_PassedFirst(passed, response_text) ==
    IF passed # None
    THEN passed[1].refresh_token
    ELSE Get(response_text, "refresh_token")

\* Lines 254-257; raises when the token to fall back on is None.
NewRefreshToken(passed, response_text) ==
    IF ~HasKey(response_text, "refresh_token")
    THEN passed[1].refresh_token
    ELSE Get(response_text, "refresh_token")

HeldAfter_AlwaysHold(hold, held, token) == Some(token)

\* Lines 262-263.
HeldAfter(hold, held, token) == IF hold THEN Some(token) ELSE held

FrameIdle ==
    [op |-> "", passed |-> None, reauthorize |-> FALSE, code |-> None,
     active |-> FALSE, request |-> None, posted_on |-> 0,
     status |-> 0, response_ok |-> <<FALSE, "">>, text |-> None,
     held_before |-> None, result |-> None, old_session |-> 0, known |-> 0,
     responded_at |-> -1, finished_at |-> -1, passed_ref |-> 0, result_ref |-> 0]

CanStart(t) == t \in callers /\ pc[t] \in {"idle", "done"}

\* Is there a session that was created and has not been closed since?
ActiveSession == session # 0 /\ ~closed[session]

PassedChoices == {None, Some(Token0), spotify_authorisation_token}

\* The object a caller passes: none, its own earlier token, or the held one.
PassedRef(passed) ==
    IF passed = None THEN 0 ELSE IF passed = Some(Token0) THEN 1 ELSE held_ref

\* The token objects something still refers to once task t passes object p:
\* the caller's earlier token, the held one, and what the other calls hold.
Live(t, p) ==
    ({1, held_ref, p}
     \cup {frame[u].passed_ref : u \in Tasks \ {t}}
     \cup {frame[u].result_ref : u \in Tasks \ {t}}) \ {0}

Restrict(h, ids) == [i \in DOMAIN h \cap ids |-> h[i]]

\* The id a newly constructed object gets: the first one not in use.
Fresh(h) ==
    CHOOSE i \in 1..(Cardinality(DOMAIN h) + 1) :
        i \notin DOMAIN h /\ \A j \in 1..(i - 1) : j \in DOMAIN h

Construct_InPlace(h, passed_ref, token) ==
    IF passed_ref # 0
    THEN [h EXCEPT ![passed_ref] = token] @@ (Fresh(h) :> token)
    ELSE h @@ (Fresh(h) :> token)

\* Lines 258-260: the constructor makes a new object; the passed one is only read.
Construct(h, passed_ref, token) == h @@ (Fresh(h) :> token)

ActivationTime_AtResponse(f, now) == f.responded_at

ActivationTime_OfPassed(f, now) ==
    IF f.passed # None THEN f.passed[1].activation_time ELSE now

\* Line 259: int(time.time()), read when the token is constructed.
ActivationTime(f, now) == now

\* Lines 223-244, up to the suspension in session.post.  Reading
\* passed_auth_token_object.refresh_token of None raises AttributeError; a
\* session that is None raises SpotifyError; ClientSession.post on a closed
\* session raises aiohttp's RuntimeError("Session is closed").
RefreshTokenStart(t, passed, reauthorize, code) ==
    /\ CanStart(t)
    /\ LET f0 == [FrameIdle EXCEPT !.op = "refresh_token", !.passed = passed,
                                   !.reauthorize = reauthorize, !.code = code,
                                   !.active = ActiveSession,
                                   !.held_before = spotify_authorisation_token,
                                   !.passed_ref = PassedRef(passed)]
       IN IF reauthorize /\ passed = None
          THEN /\ frame' = [frame EXCEPT ![t] = [f0 EXCEPT !.result = Some(Raise("AttributeError"))]]
               /\ pc' = [pc EXCEPT ![t] = "done"]
          ELSE IF session = 0
          THEN /\ frame' = [frame EXCEPT ![t] = [f0 EXCEPT !.result = Some(Raise("SpotifyError"))]]
               /\ pc' = [pc EXCEPT ![t] = "done"]
          ELSE LET req == [data |-> RequestBody(preferences, passed, reauthorize, code),
                           headers |-> RequestHeader(preferences)]
                   f1 == [f0 EXCEPT !.request = Some(req), !.posted_on = session]
               IN IF closed[session]
                  THEN /\ frame' = [frame EXCEPT ![t] = [f1 EXCEPT !.result = Some(Raise("RuntimeError"))]]
                       /\ pc' = [pc EXCEPT ![t] = "done"]
                  ELSE /\ frame' = [frame EXCEPT ![t] = f1]
                       /\ pc' = [pc EXCEPT ![t] = "rt_post"]
    /\ heap' = Restrict(heap, Live(t, PassedRef(passed)))
    /\ UNCHANGED <<api, preferences, hold_authentication, session, closed,
                   spotify_authorisation_token, clock, last_returned, callers,
                   held_ref, max_activation>>
    /\ UNCHANGED authVars

\* Lines 244-246: the response arrives, its status is classified, and the
\* coroutine suspends in response.text().
RefreshTokenResponse(t, status) ==
    /\ t \in callers
    /\ pc[t] = "rt_post"
    /\ frame' = [frame EXCEPT ![t].status = status, ![t].response_ok = request_ok(status),
                              ![t].responded_at = clock]
    /\ pc' = [pc EXCEPT ![t] = "rt_text"]
    /\ UNCHANGED <<api, preferences, hold_authentication, session, closed,
                   spotify_authorisation_token, clock, last_returned, callers>>
    /\ UNCHANGED tokVars
    /\ UNCHANGED authVars

\* Lines 248-265, without a suspension: parse, reject, build the token, hold it.
RefreshTokenOutcome(f, text, now) ==
    LET response_text == json_loads(text) IN
    IF ~response_text.ok THEN Raise("JSONDecodeError")
    ELSE IF ~f.response_ok[1]
    THEN RaiseMsg("SpotifyError", <<f.response_ok[2], "\n", str(response_text)>>)
    ELSE IF ~HasKey(response_text, "refresh_token") /\ f.passed = None
    THEN Raise("AttributeError")
    ELSE IF response_text.kind # "dict" THEN Raise("TypeError")
    ELSE IF ~HasKey(response_text, "access_token") THEN Raise("KeyError")
    ELSE Return(SpotifyAuthorisationToken(NewRefreshToken(f.passed, response_text),
                                          ActivationTime(f, now),
                                          Get(response_text, "access_token")))

RefreshTokenFinish(t, text) ==
    /\ t \in callers
    /\ pc[t] = "rt_text"
    /\ LET r == RefreshTokenOutcome(frame[t], text, clock)
           returned == r.kind = "return"
       IN /\ frame' = [frame EXCEPT ![t].text = Some(text), ![t].result = Some(r),
                                    ![t].finished_at = clock,
                                    ![t].result_ref = IF returned THEN Fresh(heap) ELSE 0]
          /\ spotify_authorisation_token' =
                IF returned
                THEN HeldAfter(hold_authentication, spotify_authorisation_token, r.value[1])
                ELSE spotify_authorisation_token
          /\ last_returned' = IF returned THEN r.value ELSE last_returned
          /\ heap' = IF returned
                     THEN Construct(heap, frame[t].passed_ref, r.value[1])
                     ELSE heap
          /\ held_ref' = IF returned /\ hold_authentication THEN Fresh(heap) ELSE held_ref
          /\ max_activation' =
                IF returned /\ r.value[1].activation_time > max_activation
                THEN r.value[1].activation_time
                ELSE max_activation
    /\ pc' = [pc EXCEPT ![t] = "done"]
    /\ UNCHANGED <<api, preferences, hold_authentication, session, closed, clock, callers>>
    /\ UNCHANGED authVars

-----------------------------------------------------------------------------
(* The session: create_new_client and close_client *)

\* ClientSession.close(): the session is closed when the call is made.
Close(cl, s) == [cl EXCEPT ![s] = TRUE]

\* ClientSession(...): a new open session; its id is its place in closed.
NewSession(cl) == Append(cl, FALSE)

OpenSessions == {i \in DOMAIN closed : ~closed[i]}

\* Sessions that suspended create_new_client calls are still to create.
Pending == Cardinality({u \in Tasks : pc[u] = "cc_close"})

CreateNewClientStart_NoClose(t) ==
    /\ CanStart(t)
    /\ Len(closed) + Pending < MaxSessions
    /\ LET f0 == [FrameIdle EXCEPT !.op = "create_new_client",
                                   !.old_session = session, !.known = Len(closed)]
       IN /\ frame' = [frame EXCEPT ![t] = f0]
          /\ pc' = [pc EXCEPT ![t] = "done"]
          /\ closed' = NewSession(closed)
          /\ session' = Len(closed) + 1
    /\ UNCHANGED <<api, preferences, hold_authentication, spotify_authorisation_token,
                   clock, last_returned, callers>>
    /\ UNCHANGED tokVars
    /\ UNCHANGED authVars

\* Lines 70-75.  With a session set, the call closes it and suspends in the
\* await; with none it runs to its end without suspending.
CreateNewClientStart(t) ==
    /\ CanStart(t)
    /\ Len(closed) + Pending < MaxSessions
    /\ LET f0 == [FrameIdle EXCEPT !.op = "create_new_client",
                                   !.old_session = session, !.known = Len(closed)]
       IN /\ frame' = [frame EXCEPT ![t] = f0]
          /\ IF session # 0
             THEN /\ closed' = Close(closed, session)
                  /\ pc' = [pc EXCEPT ![t] = "cc_close"]
                  /\ UNCHANGED session
             ELSE /\ closed' = NewSession(closed)
                  /\ session' = Len(closed) + 1
                  /\ pc' = [pc EXCEPT ![t] = "done"]
    /\ UNCHANGED <<api, preferences, hold_authentication, spotify_authorisation_token,
                   clock, last_returned, callers>>
    /\ UNCHANGED tokVars
    /\ UNCHANGED authVars

\* Lines 73-75, after the await of close().
CreateNewClientFinish(t) ==
    /\ t \in callers
    /\ pc[t] = "cc_close"
    /\ closed' = NewSession(closed)
    /\ session' = Len(closed) + 1
    /\ pc' = [pc EXCEPT ![t] = "done"]
    /\ UNCHANGED <<api, preferences, hold_authentication, spotify_authorisation_token,
                   clock, last_returned, callers, frame>>
    /\ UNCHANGED tokVars
    /\ UNCHANGED authVars

\* Lines 84-85: the session is closed, self.session keeps referring to it.
CloseClient(t) ==
    /\ CanStart(t)
    /\ frame' = [frame EXCEPT ![t] = [FrameIdle EXCEPT !.op = "close_client",
                                                       !.old_session = session,
                                                       !.known = Len(closed)]]
    /\ closed' = IF session # 0 THEN Close(closed, session) ELSE closed
    /\ pc' = [pc EXCEPT ![t] = "done"]
    /\ UNCHANGED <<api, preferences, hold_authentication, session,
                   spotify_authorisation_token, clock, last_returned, callers>>
    /\ UNCHANGED tokVars
    /\ UNCHANGED authVars

\* The local clock moves on.
Tick ==
    /\ clock < MaxClock
    /\ clock' = clock + 1
    /\ UNCHANGED <<api, preferences, hold_authentication, session, closed,
                   spotify_authorisation_token, last_returned, callers, pc, frame>>
    /\ UNCHANGED tokVars
    /\ UNCHANGED authVars

-----------------------------------------------------------------------------
(* Preferences that pass validate(): every field set *)

RedirectUrls ==
    { <<"http", ":", "/", "/", "localhost", ":", "1234", "/", "cb">>,
      <<"http", ":", "/", "/", "localhost", "/", "cb", "?", "x", "=", "1", "&", "y", "=", "2">> }

ScopeLists ==
    { << <<"user-read-email">>, <<"user-read-private">> >>,
      << <<"user-read-private">>, <<"user-read-email">> >>,
      << <<"streaming">> >> }

AuthPreferences ==
    [application_id : {<<"a", "b", "c">>, <<"a", "+", "b">>},
     application_secret : {<<"s">>},
     redirect_url : RedirectUrls,
     scopes : ScopeLists]

\* Credentials of 4, 5 and 6 bytes: each padding of the base64 text.
ExchangePreferences ==
    { p \in [application_id : {<<"a", "b">>, <<"a", "b", "c">>},
             application_secret : {<<"s">>, <<"s", "t">>},
             redirect_url : {<<"http", ":", "/", "/", "localhost", ":", "1234", "/", "cb">>},
             scopes : {<< <<"streaming">> >>}] :
        Len(p.application_id) > Len(p.application_secret) }

States == {None, Some(<<>>), Some(<<"xyz">>), Some(<<"x", "&", "y", "=", " ", "z">>)}

-----------------------------------------------------------------------------
(* Specifications *)

\* API.__init__, lines 50-53.
InitApi ==
    /\ session = 0
    /\ closed = <<>>
    /\ spotify_authorisation_token = None
    /\ clock = 0
    /\ last_returned = None
    /\ heap = (1 :> Token0)
    /\ held_ref = 0
    /\ max_activation = -1
    /\ pc = [t \in Tasks |-> "idle"]
    /\ frame = [t \in Tasks |-> FrameIdle]

InitAuthIdle ==
    /\ url_call = None
    /\ processes = <<>>
    /\ gc = GcIdle

\* One caller, awaiting each call before it makes the next.
Init ==
    /\ preferences \in ExchangePreferences
    /\ api = [state |-> "object", given |-> Some(preferences)]
    /\ hold_authentication \in BOOLEAN
    /\ callers = {1}
    /\ InitApi
    /\ InitAuthIdle

Next ==
    \/ \E t \in Tasks : CreateNewClientStart(t)
    \/ \E t \in Tasks : CreateNewClientFinish(t)
    \/ \E t \in Tasks : CloseClient(t)
    \/ \E t \in Tasks : \E passed \in PassedChoices : \E reauthorize \in BOOLEAN :
          \E code \in {None, Some("c1")} : RefreshTokenStart(t, passed, reauthorize, code)
    \/ \E t \in Tasks : \E status \in StatusSamples : RefreshTokenResponse(t, status)
    \/ \E t \in Tasks : \E text \in BodySamples : RefreshTokenFinish(t, text)
    \/ Tick

Spec == Init /\ [][Next]_vars

\* The authorization flow of one API object.
InitAuth ==
    /\ preferences \in AuthPreferences
    /\ api = [state |-> "object", given |-> Some(preferences)]
    /\ hold_authentication = FALSE
    /\ callers = {1}
    /\ InitApi
    /\ InitAuthIdle

NextAuth ==
    \/ \E show_dialog \in BOOLEAN : \E state \in States :
          BuildAuthorizationUrl(show_dialog, state)
    \/ GetCodeStart
    \/ \E response \in Responses : GetCodeResume(response)

SpecAuth == InitAuth /\ [][NextAuth]_vars

-----------------------------------------------------------------------------
(* Reading a URL and a header back: what a receiver decodes *)

Contains(seq, c) == \E i \in 1..Len(seq) : seq[i] = c

First(seq, c) == CHOOSE i \in 1..Len(seq) : seq[i] = c /\ \A j \in 1..(i - 1) : seq[j] # c

Before(seq, c) == SubSeq(seq, 1, First(seq, c) - 1)

After(seq, c) == SubSeq(seq, First(seq, c) + 1, Len(seq))

RECURSIVE SplitOn(_, _)
SplitOn(seq, c) ==
    IF ~Contains(seq, c) THEN <<seq>>
    ELSE <<Before(seq, c)>> \o SplitOn(After(seq, c), c)

Unhex(h1, h2) == CHOOSE c \in Unsafe \ {" "} : Hex(c) = <<h1, h2>>

RECURSIVE unquote_plus(_)
unquote_plus(s) ==
    IF s = <<>> THEN <<>>
    ELSE IF Head(s) = "+" THEN <<" ">> \o unquote_plus(Tail(s))
    ELSE IF Head(s) = "%" THEN <<Unhex(s[2], s[3])>> \o unquote_plus(SubSeq(s, 4, Len(s)))
    ELSE <<Head(s)>> \o unquote_plus(Tail(s))

\* The decoded (name, value) pairs of a URL's query, in their order.
QueryParams(url) ==
    LET pairs == SplitOn(After(url, "?"), "&")
    IN [i \in DOMAIN pairs |->
            <<unquote_plus(Before(pairs[i], "=")), unquote_plus(After(pairs[i], "="))>>]

Range(seq) == {seq[i] : i \in DOMAIN seq}

B64Index(c) == CHOOSE i \in 0..63 : B64Alphabet[i + 1] = c

RECURSIVE b64decode(_)
b64decode(chars) ==
    IF chars = <<>> THEN <<>>
    ELSE LET i1 == B64Index(chars[1])
             i2 == B64Index(chars[2])
         IN IF chars[3] = "=" THEN <<i1 * 4 + i2 \div 16>>
            ELSE LET i3 == B64Index(chars[3])
                 IN IF chars[4] = "="
                    THEN <<i1 * 4 + i2 \div 16, (i2 % 16) * 16 + i3 \div 4>>
                    ELSE <<i1 * 4 + i2 \div 16, (i2 % 16) * 16 + i3 \div 4,
                           (i3 % 4) * 64 + B64Index(chars[4])>>
                         \o b64decode(SubSeq(chars, 5, Len(chars)))

-----------------------------------------------------------------------------
(* Claims *)

GcDone == gc.pc = "done"

GcResponse == gc.response[1]

GcResult == gc.result[1]

\* C1: whatever curl's outcome, the callback listener spawned by a
\* get_code_with_cookie call has been killed when the call returns or raises.
C1_ListenerKilledOnEveryPath ==
    GcDone => processes[gc.webserver_process] = "killed"

\* curl exited with 0, its output is text, JSON and holds a "code".
GoodCurl(response) ==
    /\ response.returncode = 0
    /\ Decodes(response.stdout)
    /\ json_loads(response.stdout).ok
    /\ HasKey(json_loads(response.stdout), "code")

\* C5: get_code_with_cookie returns a code only from a curl run that exited
\* with 0 and printed JSON text holding a "code"; every other run (its stderr
\* being text) ends in a SpotifyError.
C5_CodeOrSpotifyError ==
    GcDone /\ Decodes(GcResponse.stderr) =>
        IF GoodCurl(GcResponse)
        THEN GcResult.kind = "return"
             /\ GcResult.value = Some(Get(json_loads(GcResponse.stdout), "code"))
        ELSE GcResult.kind = "raise" /\ GcResult.exc = "SpotifyError"

\* The query parameters build_authorization_url must produce, the state
\* parameter included when withState holds.
ExpectedParams(prefs, show_dialog, state, withState) ==
    { <<<<"client_id">>, prefs.application_id>>,
      <<<<"response_type">>, <<"code">>>>,
      <<<<"scope">>, Join(<<" ">>, prefs.scopes)>>,
      <<<<"show_dialog">>, IF show_dialog THEN <<"True">> ELSE <<"False">>>>,
      <<<<"redirect_uri">>, prefs.redirect_url>> }
    \cup (IF withState THEN { <<<<"state">>, state[1]>> } ELSE {})

ParamsAre(url, expected) ==
    /\ Range(QueryParams(url)) = expected
    /\ Len(QueryParams(url)) = Cardinality(expected)

\* C9 as claimed: the decoded query parameters of the URL are exactly the
\* client id, response type, scopes, show_dialog text and redirect URL, and
\* the state if and only if a state was supplied (not None).
C9_StateIffSupplied ==
    url_call # None =>
        LET c == url_call[1]
        IN ParamsAre(c.url, ExpectedParams(preferences, c.show_dialog, c.state,
                                           c.state # None))

\* C9 as amended: the same parameters, and the state if and only if a
\* non-empty state was supplied.
C9_StateIffNonEmpty ==
    url_call # None =>
        LET c == url_call[1]
        IN ParamsAre(c.url, ExpectedParams(preferences, c.show_dialog, c.state,
                                           c.state # None /\ c.state[1] # <<>>))

C9_Witness ==
    /\ url_call # None
    /\ url_call[1].state = Some(<<"x", "&", "y", "=", " ", "z">>)
    /\ Len(preferences.scopes) > 1
    /\ Contains(preferences.redirect_url, "&")

-----------------------------------------------------------------------------
(* Claims about the session and the token exchange *)

Exchanging(t) == frame[t].op = "refresh_token"

Done(t) == pc[t] = "done"

Result(t) == frame[t].result[1]

\* The caller passed what the mode needs: a token in refresh mode, a code in
\* initial-exchange mode.
WellCalled(t) ==
    IF frame[t].reauthorize THEN frame[t].passed # None ELSE frame[t].code # None

\* C2: refresh_token issues the POST only when an active session exists (one
\* was created and has not been closed since); with none it fails with a
\* SpotifyError before any I/O, in both modes.
C2_PostNeedsActiveSession ==
    \A t \in Tasks :
        Exchanging(t) /\ WellCalled(t) =>
            /\ frame[t].posted_on # 0 => frame[t].active
            /\ Done(t) /\ ~frame[t].active =>
                  /\ Result(t).kind = "raise"
                  /\ Result(t).exc = "SpotifyError"
                  /\ frame[t].posted_on = 0

\* C3: for a response whose status the classifier reports as non-success,
\* whatever its body, refresh_token raises a SpotifyError whose message holds
\* the classifier's reason and the response body (as received, or as str()
\* renders it once parsed), and returns no token.
C3_RejectionCarriesReasonAndBody ==
    \A t \in Tasks :
        Exchanging(t) /\ Done(t) /\ frame[t].text # None /\ ~frame[t].response_ok[1] =>
            /\ Result(t).kind = "raise"
            /\ Result(t).exc = "SpotifyError"
            /\ Len(Result(t).message) = 3
            /\ Result(t).message[1] = frame[t].response_ok[2]
            /\ Result(t).message[3] \in
                  {frame[t].text[1], str(json_loads(frame[t].text[1]))}

\* C4: in refresh mode the returned token keeps the passed token's
\* refresh_token when the response omits "refresh_token" and takes the
\* response's when it has one; its access_token is the response's.
C4_RefreshTokenKeptOrAdopted ==
    \A t \in Tasks :
        Exchanging(t) /\ Done(t) /\ frame[t].reauthorize /\ Result(t).kind = "return" =>
            LET body == json_loads(frame[t].text[1])
                token == Result(t).value[1]
            IN /\ (\A p \in body.items : p[1] # "refresh_token")
                     => token.refresh_token = frame[t].passed[1].refresh_token
               /\ \A p \in body.items :
                     /\ p[1] = "refresh_token" => token.refresh_token = p[2]
                     /\ p[1] = "access_token" => token.access_token = p[2]
               /\ \E p \in body.items : p[1] = "access_token"

C4_Witness ==
    \E t \in Tasks :
        /\ Exchanging(t) /\ Done(t) /\ frame[t].reauthorize
        /\ frame[t].result # None /\ Result(t).kind = "return"
        /\ frame[t].text = Some("{\"access_token\": \"A1\"}")
        /\ frame[t].passed[1].refresh_token = "R2"

\* C6: the held token is never written when hold_authentication is false;
\* when it is true the held token is None or the whole token the last
\* successful exchange returned; a failing exchange leaves it unchanged.
C6_HeldTokenIsLastReturned ==
    /\ ~hold_authentication => spotify_authorisation_token = None
    /\ hold_authentication => spotify_authorisation_token = last_returned
    /\ \A t \in Tasks :
          Exchanging(t) /\ Done(t) /\ Result(t).kind = "raise" =>
              spotify_authorisation_token = frame[t].held_before

C6_Witness ==
    /\ hold_authentication
    /\ spotify_authorisation_token # None
    /\ spotify_authorisation_token[1].access_token = "A2"
    /\ \E t \in Tasks : Exchanging(t) /\ Done(t) /\ Result(t).kind = "raise"
                        /\ frame[t].text # None

\* C7: when a create_new_client call has completed, the session that was
\* current when it started is closed and self.session is a session created
\* by the call and open; at most one session is open at any time.
C7_OneOpenSession ==
    /\ Cardinality(OpenSessions) <= 1
    /\ \A t \in Tasks :
          frame[t].op = "create_new_client" /\ Done(t) =>
              /\ frame[t].old_session # 0 => closed[frame[t].old_session]
              /\ session > frame[t].known
              /\ ~closed[session]

C7_Witness ==
    \E t \in Tasks :
        /\ frame[t].op = "create_new_client" /\ Done(t)
        /\ frame[t].old_session # 0
        /\ Len(closed) = MaxSessions

BandCodes ==
    DOMAIN STATUS_CODES.OK \cup DOMAIN STATUS_CODES.REDIRECT
    \cup DOMAIN STATUS_CODES.CLIENT_ERROR \cup DOMAIN STATUS_CODES.SERVER_ERROR

\* The classification the bands of STATUS_CODES ask for.
Classified(status_code, answer) ==
    /\ status_code \in DOMAIN STATUS_CODES.OK
          => answer = <<TRUE, STATUS_CODES.OK[status_code]>>
    /\ status_code \in DOMAIN STATUS_CODES.REDIRECT
          => answer = <<FALSE, STATUS_CODES.REDIRECT[status_code]>>
    /\ status_code \in DOMAIN STATUS_CODES.CLIENT_ERROR
          => answer = <<FALSE, STATUS_CODES.CLIENT_ERROR[status_code]>>
    /\ status_code \in DOMAIN STATUS_CODES.SERVER_ERROR
          => answer = <<FALSE, STATUS_CODES.SERVER_ERROR[status_code]>>
    /\ status_code \notin BandCodes
          => answer = <<FALSE, "Unknown response code">>

\* C8: request_ok answers for every status code: (TRUE, reason) for a code of
\* the OK band, (FALSE, reason) for a code of the REDIRECT, CLIENT_ERROR or
\* SERVER_ERROR band, (FALSE, "Unknown response code") for any other code.
C8_ClassifierTotal ==
    /\ \A t \in Tasks : frame[t].status # 0 =>
          Classified(frame[t].status, frame[t].response_ok)
    /\ \A status_code \in BandCodes \cup StatusSamples :
          Classified(status_code, request_ok(status_code))

C8_Witness ==
    \E t \in Tasks : frame[t].status = 499 /\ frame[t].response_ok[2] = "Unknown response code"

\* C10: the request body is {grant_type: "refresh_token", refresh_token: the
\* passed token's} in refresh mode and {grant_type: "authorization_code",
\* code, redirect_uri: Preferences.redirect_url} otherwise, whatever else was
\* passed; the Authorization header is "Basic " and the base64 text of
\* "<application_id>:<application_secret>".
C10_RequestByMode ==
    \A t \in Tasks :
        frame[t].request # None =>
            LET data == frame[t].request[1].data
                auth == frame[t].request[1].headers.Authorization
            IN /\ IF frame[t].reauthorize
                  THEN /\ DOMAIN data = {"grant_type", "refresh_token"}
                       /\ data.grant_type = "refresh_token"
                       /\ data.refresh_token = frame[t].passed[1].refresh_token
                  ELSE /\ DOMAIN data = {"grant_type", "code", "redirect_uri"}
                       /\ data.grant_type = "authorization_code"
                       /\ data.code = frame[t].code
                       /\ data.redirect_uri = preferences.redirect_url
               /\ DOMAIN frame[t].request[1].headers = {"Authorization"}
               /\ SubSeq(auth, 1, 2) = <<"Basic", " ">>
               /\ Len(auth) % 4 = 2
               /\ b64decode(SubSeq(auth, 3, Len(auth)))
                     = Encode(preferences.application_id) \o <<58>>
                       \o Encode(preferences.application_secret)

C10_Witness ==
    \E t \in Tasks :
        /\ frame[t].request # None
        /\ ~frame[t].reauthorize
        /\ frame[t].passed # None
        /\ frame[t].code # None
        /\ Len(preferences.application_id) + Len(preferences.application_secret) = 4

-----------------------------------------------------------------------------
(* Claims about the returned token *)

Returned(t) == Exchanging(t) /\ Done(t) /\ Result(t).kind = "return"

\* C11: the activation_time of every returned token is the reading of the
\* local clock taken when the exchange constructed it, after the response
\* was received, whatever the response body holds.
C11_ActivationTimeIsLocalClock ==
    \A t \in Tasks :
        Returned(t) =>
            /\ Result(t).value[1].activation_time = frame[t].finished_at
            /\ frame[t].responded_at <= Result(t).value[1].activation_time

C11_Witness ==
    \E t \in Tasks :
        /\ Returned(t)
        /\ frame[t].passed # None
        /\ frame[t].passed[1].activation_time = 0
        /\ frame[t].responded_at = 0
        /\ frame[t].finished_at = MaxClock

\* C15: refresh_token leaves the token object passed to it as it was, whether
\* the call returns or raises, and a returning call returns a newly
\* constructed object, none of the passed, the caller's or the held before.
C15_PassedTokenNotMutated ==
    \A t \in Tasks :
        Exchanging(t) /\ Done(t) /\ frame[t].passed_ref # 0 =>
            /\ frame[t].passed_ref \in DOMAIN heap
            /\ heap[frame[t].passed_ref] = frame[t].passed[1]
            /\ Result(t).kind = "return" =>
                  /\ frame[t].result_ref \in DOMAIN heap
                  /\ frame[t].result_ref \notin {frame[t].passed_ref, 1}
                  /\ heap[frame[t].result_ref] = Result(t).value[1]

C15_Witness ==
    \E t \in Tasks :
        /\ Returned(t)
        /\ frame[t].passed_ref \notin {0, 1}
        /\ hold_authentication
        /\ held_ref = frame[t].result_ref

-----------------------------------------------------------------------------
(* Construction: API.__init__ *)

\* Preferences.validate(): every one of the four fields is set.
validate(prefs) ==
    /\ prefs.application_id # <<>>
    /\ prefs.application_secret # <<>>
    /\ prefs.redirect_url # <<>>
    /\ prefs.scopes # <<>>

ValidSample ==
    [application_id |-> <<"a", "b", "c">>, application_secret |-> <<"s">>,
     redirect_url |-> <<"http", ":", "/", "/", "localhost", ":", "1234", "/", "cb">>,
     scopes |-> << <<"streaming">> >>]

\* What a caller may hand to API(...): valid preferences, or some field unset.
CandidatePreferences ==
    { ValidSample,
      [ValidSample EXCEPT !.application_id = <<>>],
      [ValidSample EXCEPT !.application_secret = <<>>],
      [ValidSample EXCEPT !.redirect_url = <<>>],
      [ValidSample EXCEPT !.scopes = <<>>] }

ApiInit_NoValidate(prefs, hold) ==
    /\ api.state = "unborn"
    /\ api' = [state |-> "object", given |-> Some(prefs)]
    /\ preferences' = prefs
    /\ hold_authentication' = hold
    /\ session' = 0
    /\ spotify_authorisation_token' = None
    /\ UNCHANGED <<closed, clock, last_returned, tokVars, callers, pc, frame>>
    /\ UNCHANGED authVars

\* Lines 46-53: __init__ raises before it sets a field when validate() fails,
\* and then no object comes to exist.
ApiInit(prefs, hold) ==
    /\ api.state = "unborn"
    /\ IF ~validate(prefs)
       THEN /\ api' = [state |-> "SpotifyError", given |-> Some(prefs)]
            /\ UNCHANGED <<preferences, hold_authentication, session,
                           spotify_authorisation_token>>
       ELSE /\ api' = [state |-> "object", given |-> Some(prefs)]
            /\ preferences' = prefs
            /\ hold_authentication' = hold
            /\ session' = 0
            /\ spotify_authorisation_token' = None
    /\ UNCHANGED <<closed, clock, last_returned, tokVars, callers, pc, frame>>
    /\ UNCHANGED authVars

\* No object yet: the fields of the object to be have no value.
InitConstruct ==
    /\ api = [state |-> "unborn", given |-> None]
    /\ preferences = None
    /\ hold_authentication = FALSE
    /\ callers = {1}
    /\ InitApi
    /\ InitAuthIdle

\* A method runs only on an object that exists.
NextConstruct ==
    \/ \E prefs \in CandidatePreferences : \E hold \in BOOLEAN : ApiInit(prefs, hold)
    \/ /\ api.state = "object"
       /\ \E show_dialog \in BOOLEAN : \E state \in States :
             BuildAuthorizationUrl(show_dialog, state)
    \/ /\ api.state = "object"
       /\ GetCodeStart
    \/ /\ api.state = "object"
       /\ \E response \in Responses : GetCodeResume(response)
    \/ /\ api.state = "object"
       /\ \E passed \in {None, Some(Token0)} : \E reauthorize \in BOOLEAN :
             \E code \in {None, Some("c1")} : RefreshTokenStart(1, passed, reauthorize, code)

SpecConstruct == InitConstruct /\ [][NextConstruct]_vars

\* Has one of the flow operations run?
FlowRan ==
    \/ url_call # None
    \/ gc.pc # "idle"
    \/ \E t \in Tasks : frame[t].op # ""

\* C12: constructing an API with preferences that do not pass validate()
\* fails with a SpotifyError and leaves no object; no flow operation runs on
\* an API whose preferences did not pass validate() at construction.
C12_NoApiWithoutValidPreferences ==
    /\ api.state # "unborn" /\ ~validate(api.given[1]) =>
          /\ api.state = "SpotifyError"
          /\ preferences = None
          /\ ~FlowRan
    /\ FlowRan =>
          /\ api.state = "object"
          /\ preferences = api.given[1]
          /\ validate(preferences)

C12_Witness ==
    /\ api.state = "SpotifyError"
    /\ api.given[1].scopes = <<>>

-----------------------------------------------------------------------------
(* Malformed bodies behind a success status; order of the listener's events *)

\* The body is not JSON, or lacks a field the exchange needs.
Malformed(t) ==
    LET body == json_loads(frame[t].text[1]) IN
    \/ ~body.ok
    \/ ~HasKey(body, "access_token")
    \/ frame[t].passed = None /\ ~HasKey(body, "refresh_token")

\* C13: a success status with a body that is not valid JSON or lacks
\* access_token (or lacks refresh_token when no previous token was passed)
\* makes refresh_token raise a SpotifyError, return no token and leave the
\* held token as it was.
C13_MalformedBodyIsSpotifyError ==
    \A t \in Tasks :
        Exchanging(t) /\ WellCalled(t) /\ Done(t) /\ frame[t].text # None
            /\ frame[t].response_ok[1] /\ Malformed(t) =>
                /\ Result(t).kind = "raise"
                /\ Result(t).exc = "SpotifyError"
                /\ spotify_authorisation_token = frame[t].held_before

\* C14: a finished get_code_with_cookie call spawned one listener, waited,
\* issued curl once and then killed the listener, in this order.
C14_SpawnWaitCurlKill ==
    GcDone => gc.events = <<"spawn", "wait", "curl", "kill">>

-----------------------------------------------------------------------------
(* Callers that do not await one another: session calls *)

\* The objects of Init, with every task calling while the others are suspended.
InitSessions ==
    /\ preferences \in ExchangePreferences
    /\ api = [state |-> "object", given |-> Some(preferences)]
    /\ hold_authentication \in BOOLEAN
    /\ callers = Tasks
    /\ InitApi
    /\ InitAuthIdle

NextSessions ==
    \/ \E t \in Tasks : CreateNewClientStart(t)
    \/ \E t \in Tasks : CreateNewClientFinish(t)
    \/ \E t \in Tasks : CloseClient(t)

SpecSessions == InitSessions /\ [][NextSessions]_vars

\* C16: once no create_new_client call is suspended in close(), every
\* session ever created is closed or is the one self.session refers to.
C16_NoLeakedSession ==
    (\A t \in Tasks : pc[t] # "cc_close") =>
        \A s \in OpenSessions : s = session

-----------------------------------------------------------------------------
(* Callers that do not await one another: token refreshes *)

\* Two refresh_token calls in flight at a time.
ConcurrentCallers == {1, 2}

\* An API object that holds its token, after one create_new_client call.
InitRefreshing ==
    /\ preferences = ValidSample
    /\ api = [state |-> "object", given |-> Some(preferences)]
    /\ hold_authentication = TRUE
    /\ callers = ConcurrentCallers
    /\ session = 1
    /\ closed = <<FALSE>>
    /\ spotify_authorisation_token = None
    /\ clock = 0
    /\ last_returned = None
    /\ heap = (1 :> Token0)
    /\ held_ref = 0
    /\ max_activation = -1
    /\ pc = [t \in Tasks |-> "idle"]
    /\ frame = [t \in Tasks |-> FrameIdle]
    /\ InitAuthIdle

NextRefreshing ==
    \/ \E t \in Tasks : RefreshTokenStart(t, Some(Token0), TRUE, None)
    \/ \E t \in Tasks : \E status \in {200, 400} : RefreshTokenResponse(t, status)
    \/ \E t \in Tasks :
          \E text \in {"{\"access_token\": \"A1\"}",
                       "{\"access_token\": \"A2\", \"refresh_token\": \"R2\"}"} :
             RefreshTokenFinish(t, text)
    \/ Tick

SpecRefreshing == InitRefreshing /\ [][NextRefreshing]_vars

\* C17: with hold_authentication on, under every interleaving of refresh_token
\* calls in flight, the held token is whole, the token one exchange returned,
\* and no token a call has constructed is newer than it.
C17_HeldTokenWholeAndNewest ==
    hold_authentication /\ spotify_authorisation_token # None =>
        /\ spotify_authorisation_token = last_returned
        /\ held_ref \in DOMAIN heap
        /\ heap[held_ref] = spotify_authorisation_token[1]
        /\ spotify_authorisation_token[1].activation_time >= max_activation

\* Call t got its response before call u finished and finished after it.
C17_Witness ==
    \E t, u \in Tasks :
        /\ t # u
        /\ Returned(t) /\ Returned(u)
        /\ held_ref = frame[t].result_ref
        /\ frame[t].responded_at < frame[u].finished_at
        /\ frame[u].responded_at < frame[u].finished_at

-----------------------------------------------------------------------------
(* Resource accessors: the get_url decorator *)

\* decorators.py, lines 30-33: the wrapped accessor names its query, and the
\* wrapper issues the GET on api.session and suspends.  With no session the
\* attribute lookup on None fails; a closed session refuses the request.
GetUrlStart(t) ==
    /\ CanStart(t)
    /\ LET f0 == [FrameIdle EXCEPT !.op = "get_url", !.active = ActiveSession,
                                   !.held_before = spotify_authorisation_token]
       IN IF session = 0
          THEN /\ frame' = [frame EXCEPT ![t] = [f0 EXCEPT !.result = Some(Raise("AttributeError"))]]
               /\ pc' = [pc EXCEPT ![t] = "done"]
          ELSE IF closed[session]
          THEN /\ frame' = [frame EXCEPT ![t] = [f0 EXCEPT !.posted_on = session,
                                                          !.result = Some(Raise("RuntimeError"))]]
               /\ pc' = [pc EXCEPT ![t] = "done"]
          ELSE /\ frame' = [frame EXCEPT ![t] = [f0 EXCEPT !.posted_on = session]]
               /\ pc' = [pc EXCEPT ![t] = "gu_get"]
    /\ UNCHANGED <<api, preferences, hold_authentication, session, closed,
                   spotify_authorisation_token, clock, last_returned, callers>>
    /\ UNCHANGED tokVars
    /\ UNCHANGED authVars

\* Lines 34-35: the status is classified, then the wrapper suspends in
\* response.json().
GetUrlResponse(t, status) ==
    /\ t \in callers
    /\ pc[t] = "gu_get"
    /\ frame' = [frame EXCEPT ![t].status = status, ![t].response_ok = request_ok(status),
                              ![t].responded_at = clock]
    /\ pc' = [pc EXCEPT ![t] = "gu_json"]
    /\ UNCHANGED <<api, preferences, hold_authentication, session, closed,
                   spotify_authorisation_token, clock, last_returned, callers>>
    /\ UNCHANGED tokVars
    /\ UNCHANGED authVars

\* Lines 35-40: the body is parsed first, whatever the status; only then is a
\* non-success status turned into a SpotifyError.
GetUrlOutcome(f, text) ==
    LET response_json == json_loads(text) IN
    IF ~response_json.ok THEN Raise("JSONDecodeError")
    ELSE IF ~f.response_ok[1] THEN RaiseMsg("SpotifyError", <<str(response_json)>>)
    ELSE Return(response_json)

GetUrlFinish(t, text) ==
    /\ t \in callers
    /\ pc[t] = "gu_json"
    /\ frame' = [frame EXCEPT ![t].text = Some(text),
                              ![t].result = Some(GetUrlOutcome(frame[t], text)),
                              ![t].finished_at = clock]
    /\ pc' = [pc EXCEPT ![t] = "done"]
    /\ UNCHANGED <<api, preferences, hold_authentication, session, closed,
                   spotify_authorisation_token, clock, last_returned, callers>>
    /\ UNCHANGED tokVars
    /\ UNCHANGED authVars

\* One caller using the session for refreshes and for resource requests.
NextGet ==
    \/ \E t \in Tasks : CreateNewClientStart(t)
    \/ \E t \in Tasks : CreateNewClientFinish(t)
    \/ \E t \in Tasks : CloseClient(t)
    \/ \E t \in Tasks : RefreshTokenStart(t, Some(Token0), TRUE, None)
    \/ \E t \in Tasks : RefreshTokenResponse(t, 200)
    \/ \E t \in Tasks : RefreshTokenFinish(t, "{\"access_token\": \"A1\"}")
    \/ \E t \in Tasks : GetUrlStart(t)
    \/ \E t \in Tasks : \E status \in StatusSamples : GetUrlResponse(t, status)
    \/ \E t \in Tasks : \E text \in BodySamples : GetUrlFinish(t, text)

SpecGet == Init /\ [][NextGet]_vars

Getting(t) == frame[t].op = "get_url"

\* C18: an accessor under get_url issues one GET on the shared session; it
\* raises a SpotifyError exactly when request_ok reports the status as
\* non-success, returns the parsed body otherwise, and leaves the held token
\* alone.
C18_GetUrlFollowsClassifier ==
    \A t \in Tasks :
        Getting(t) /\ Done(t) /\ frame[t].active =>
            /\ frame[t].posted_on = session
            /\ (Result(t).kind = "raise" /\ Result(t).exc = "SpotifyError")
                  <=> ~request_ok(frame[t].status)[1]
            /\ request_ok(frame[t].status)[1] =>
                  /\ Result(t).kind = "return"
                  /\ Result(t).value[1] = json_loads(frame[t].text[1])
            /\ spotify_authorisation_token = frame[t].held_before

=============================================================================
